---- MODULE Spec2Model ----
(***************************************************************************)
(* examples/target_program/target_program.cpp: a process that asks the OS  *)
(* for memory at a fixed virtual address, stores a value through the raw   *)
(* pointer it gets back, prints it, waits for a key, prints it again,      *)
(* waits again and returns.  The process, the OS call behind allocate_mem  *)
(* (VirtualAlloc or mmap, by build), the console, standard input and the   *)
(* external tool that edits the cell during a pause are modelled.          *)
(*                                                                         *)
(* An address is four 16-bit limbs, most significant first, so that        *)
(* 0x00007FF49E872000 is <<0, 32756, 40583, 8192>>.                        *)
(***************************************************************************)
EXTENDS Integers, Sequences, FiniteSets, TLC

VARIABLES
    platform,   \* "win32" | "posix": which allocate_mem the build compiled
    argc,       \* main's argc (never read)
    addr,       \* size_t addr, the requested target address
    wval,       \* the value main stores through the pointer
    pc,         \* main's position
    number,     \* uint64_t* number
    region,     \* the mapping the OS made for this call, or NoRegion
    cell,       \* the 8 bytes at region.base
    denied,     \* the OS refused the request
    stdin,      \* characters waiting on standard input
    eof,        \* standard input is at end of file
    console,    \* what was written to std::cout, in order
    exit,       \* how the process ended
    steps,      \* the statements main has completed, in order
    badDeref,   \* number of accesses through a pointer that refers to no mapping
    progWrites, \* number of stores main has made into the cell
    extLog      \* external edits of the cell: <<pc at the time, value>>

vars == <<platform, argc, addr, wval, pc, number, region, cell, denied, stdin,
          eof, console, exit, steps, badDeref, progWrites, extLog>>

----------------------------------------------------------------------------
(* Bounds of the model *)

MaxArgc == 2
MaxValue == 2
MaxInput == 3
MaxLine == 2
MaxExtWrites == 2

----------------------------------------------------------------------------
(* Program constants *)

\* size_t addr = 0x00007FF49E872000;
MainAddr == <<0, 32756, 40583, 8192>>

\* *number = 42;
InitialValue == 42

\* sizeof(uint64_t)
SizeofT == 8

\* (void*)0, VirtualAlloc's failure result
NULL == <<0, 0, 0, 0>>

\* MAP_FAILED, (void*)-1, mmap's failure result
MAP_FAILED == <<65535, 65535, 65535, 65535>>

PROT_READ == "r"
PROT_WRITE == "w"
PAGE_READWRITE == {"r", "w"}
MAP_SHARED == "MAP_SHARED"
MAP_PRIVATE == "MAP_PRIVATE"

NoRegion == [base |-> NULL, size |-> 0, prot |-> {}]

Values == (0 .. MaxValue) \cup {InitialValue}

\* Requests: null, the program's own address, an unaligned address in the same
\* page, and one whose 8 bytes straddle a page boundary.
Addresses ==
    { NULL, MainAddr, <<0, 32756, 40583, 8208>>, <<0, 32756, 40583, 12284>> }

\* Page-aligned addresses the OS may pick when it is free to choose.
Places == { MainAddr, <<0, 32512, 0, 4096>> }

Running == [kind |-> "running"]
Exited(code) == [kind |-> "exit", code |-> code]
Faulted == [kind |-> "fault"]

----------------------------------------------------------------------------
(* The OS calls *)

\* Start of the 4 KiB page holding address a.
PageBase(a) == <<a[1], a[2], a[3], a[4] - (a[4] % 4096)>>

\* Bytes of whole pages that cover [a, a + len).
PageSpan(a, len) == (((a[4] % 4096) + len + 4095) \div 4096) * 4096

Region(base, size, prot) == [base |-> base, size |-> size, prot |-> prot]

\* VirtualAlloc committing the pages read-only, whatever flProtect says.
VirtualAlloc_ReadOnly(lpAddress, dwSize, flProtect, grant, place) ==
    IF ~grant
    THEN [ptr |-> NULL, region |-> NoRegion]
    ELSE LET base == IF lpAddress = NULL THEN place ELSE PageBase(lpAddress)
         IN  [ptr |-> base,
              region |-> Region(base, PageSpan(lpAddress, dwSize), {"r"})]

\* VirtualAlloc(lpAddress, dwSize, MEM_COMMIT, flProtect): NULL when the OS
\* refuses; otherwise the base of the pages holding the range (the OS's own
\* choice for a null lpAddress).
VirtualAlloc(lpAddress, dwSize, flProtect, grant, place) ==
    IF ~grant
    THEN [ptr |-> NULL, region |-> NoRegion]
    ELSE LET base == IF lpAddress = NULL THEN place ELSE PageBase(lpAddress)
         IN  [ptr |-> base,
              region |-> Region(base, PageSpan(lpAddress, dwSize), flProtect)]

\* mmap reporting failure as a null pointer.
mmap_NullOnFailure(address, length, prot, flags, grant, place) ==
    IF flags \cap {MAP_SHARED, MAP_PRIVATE} = {} \/ ~grant
    THEN [ptr |-> NULL, region |-> NoRegion]
    ELSE [ptr |-> place, region |-> Region(place, PageSpan(place, length), prot)]

\* mmap(address, length, prot, flags, fd, 0): MAP_FAILED when flags names
\* neither MAP_SHARED nor MAP_PRIVATE (EINVAL) or when the OS refuses;
\* otherwise whole pages at a place of the OS's choice (address is a hint:
\* the call passes no MAP_FIXED).
mmap(address, length, prot, flags, grant, place) ==
    IF flags \cap {MAP_SHARED, MAP_PRIVATE} = {} \/ ~grant
    THEN [ptr |-> MAP_FAILED, region |-> NoRegion]
    ELSE [ptr |-> place, region |-> Region(place, PageSpan(place, length), prot)]

\* template<typename T> T* allocate_mem(size_t address), both builds.
allocate_mem(address, grant, place) ==
    IF platform = "win32"
    THEN VirtualAlloc(address, SizeofT, PAGE_READWRITE, grant, place)
    ELSE mmap(address, SizeofT, {PROT_WRITE, PROT_READ}, {}, grant, place)

\* A pointer p may be read (written) as a T when a mapping with that access
\* holds the SizeofT bytes at p.
Mapped(p) == region # NoRegion /\ p = region.base /\ region.size >= SizeofT
CanRead(p) == Mapped(p) /\ PROT_READ \in region.prot
CanWrite(p) == Mapped(p) /\ PROT_WRITE \in region.prot

----------------------------------------------------------------------------
(* Initial states *)

Common ==
    /\ platform \in {"win32", "posix"}
    /\ argc \in 1 .. MaxArgc
    /\ pc = "alloc"
    /\ number = NULL
    /\ region = NoRegion
    /\ cell = 0
    /\ denied = FALSE
    /\ stdin = 0
    /\ eof = FALSE
    /\ console = <<>>
    /\ exit = Running
    /\ steps = <<>>
    /\ badDeref = 0
    /\ progWrites = 0
    /\ extLog = <<>>

\* main as written: the fixed address and the value 42.
Init == Common /\ addr = MainAddr /\ wval = InitialValue

\* allocate_mem and the store/load through its result, for any request and value.
InitAny == Common /\ addr \in Addresses /\ wval \in Values

----------------------------------------------------------------------------
(* main *)

Fault ==
    /\ pc' = "crashed"
    /\ exit' = Faulted

\* uint64_t* number = allocate_mem<uint64_t>(addr);
\* The OS grants or refuses; fresh pages read as zero.
Allocate ==
    /\ pc = "alloc"
    /\ \E grant \in BOOLEAN, place \in Places :
         LET r == allocate_mem(addr, grant, place)
         IN  /\ number' = r.ptr
             /\ region' = r.region
             /\ denied' = (r.region = NoRegion)
    /\ cell' = 0
    /\ pc' = "write"
    /\ steps' = Append(steps, "allocate")
    /\ UNCHANGED <<platform, argc, addr, wval, stdin, eof, console, exit,
                   badDeref, progWrites, extLog>>

\* Line 10 left out: nothing is stored.
Write_Forgotten ==
    /\ pc = "write"
    /\ pc' = "print1"
    /\ steps' = Append(steps, "write")
    /\ UNCHANGED <<platform, argc, addr, wval, number, region, cell, denied,
                   stdin, eof, console, exit, badDeref, progWrites, extLog>>

\* *number = 42;  with no check of number before it.  A store through a
\* pointer to no writable mapping is undefined: the process faults, or runs on
\* with nothing stored.
Write ==
    /\ pc = "write"
    /\ \/ /\ CanWrite(number)
          /\ cell' = wval
          /\ progWrites' = progWrites + 1
          /\ pc' = "print1"
          /\ steps' = Append(steps, "write")
          /\ UNCHANGED <<exit, badDeref>>
       \/ /\ ~CanWrite(number)
          /\ badDeref' = badDeref + 1
          /\ \/ Fault /\ UNCHANGED steps
             \/ pc' = "print1" /\ steps' = Append(steps, "write") /\ UNCHANGED exit
          /\ UNCHANGED <<cell, progWrites>>
    /\ UNCHANGED <<platform, argc, addr, wval, number, region, denied, stdin,
                   eof, console, extLog>>

\* std::cout << number << " - " << *number << '\n';
\* A load through a pointer to no readable mapping is undefined: the process
\* faults, or prints whatever it found.
PrintCell(at, next) ==
    /\ pc = at
    /\ \/ /\ CanRead(number)
          /\ console' = Append(console, [ptr |-> number, val |-> cell])
          /\ pc' = next
          /\ steps' = Append(steps, "print")
          /\ UNCHANGED <<exit, badDeref>>
       \/ /\ ~CanRead(number)
          /\ badDeref' = badDeref + 1
          /\ \/ Fault /\ UNCHANGED <<console, steps>>
             \/ /\ \E v \in Values :
                     console' = Append(console, [ptr |-> number, val |-> v])
                /\ pc' = next
                /\ steps' = Append(steps, "print")
                /\ UNCHANGED exit
    /\ UNCHANGED <<platform, argc, addr, wval, number, region, cell, denied,
                   stdin, eof, progWrites, extLog>>

Print1 == PrintCell("print1", "prompt1")

\* The second print, with the first print's value instead of a fresh load.
Print2_Cached ==
    /\ pc = "print2"
    /\ console' = Append(console, [ptr |-> number, val |-> console[1].val])
    /\ pc' = "prompt2"
    /\ steps' = Append(steps, "print")
    /\ UNCHANGED <<platform, argc, addr, wval, number, region, cell, denied,
                   stdin, eof, exit, badDeref, progWrites, extLog>>

\* The second print, through number + 1: the next, untouched 8 bytes.
Print2_NextCell ==
    /\ pc = "print2"
    /\ console' = Append(console,
          [ptr |-> <<number[1], number[2], number[3], number[4] + SizeofT>>,
           val |-> 0])
    /\ pc' = "prompt2"
    /\ steps' = Append(steps, "print")
    /\ UNCHANGED <<platform, argc, addr, wval, number, region, cell, denied,
                   stdin, eof, exit, badDeref, progWrites, extLog>>

Print2 == PrintCell("print2", "prompt2")

\* std::cout << "Press ENTER to update value\n";  and  "Press ENTER to exit\n".
Prompt(at, next, text) ==
    /\ pc = at
    /\ console' = Append(console, [text |-> text])
    /\ pc' = next
    /\ UNCHANGED <<platform, argc, addr, wval, number, region, cell, denied,
                   stdin, eof, exit, steps, badDeref, progWrites, extLog>>

Prompt1 == Prompt("prompt1", "pause1", "Press ENTER to update value")
Prompt2 == Prompt("prompt2", "pause2", "Press ENTER to exit")

\* std::cin.get(): takes one waiting character, or returns at once at end of
\* file; with neither it blocks.
CinGet(at, next) ==
    /\ pc = at
    /\ stdin > 0 \/ eof
    /\ stdin' = IF stdin > 0 THEN stdin - 1 ELSE stdin
    /\ pc' = next
    /\ steps' = Append(steps, "pause")
    /\ UNCHANGED <<platform, argc, addr, wval, number, region, cell, denied,
                   eof, console, exit, badDeref, progWrites, extLog>>

\* The first pause, releasing the mapping when it returns.
CinGet1_Unmap ==
    /\ pc = "pause1"
    /\ stdin > 0 \/ eof
    /\ stdin' = IF stdin > 0 THEN stdin - 1 ELSE stdin
    /\ pc' = "print2"
    /\ region' = NoRegion
    /\ steps' = Append(steps, "pause")
    /\ UNCHANGED <<platform, argc, addr, wval, number, cell, denied,
                   eof, console, exit, badDeref, progWrites, extLog>>

CinGet1 == CinGet("pause1", "print2")
CinGet2 == CinGet("pause2", "return")

\* main returning 1.
Return_One ==
    /\ pc = "return"
    /\ pc' = "done"
    /\ exit' = Exited(1)
    /\ steps' = Append(steps, "exit")
    /\ UNCHANGED <<platform, argc, addr, wval, number, region, cell, denied,
                   stdin, eof, console, badDeref, progWrites, extLog>>

\* main's closing brace: returns 0.
Return ==
    /\ pc = "return"
    /\ pc' = "done"
    /\ exit' = Exited(0)
    /\ steps' = Append(steps, "exit")
    /\ UNCHANGED <<platform, argc, addr, wval, number, region, cell, denied,
                   stdin, eof, console, badDeref, progWrites, extLog>>

----------------------------------------------------------------------------
(* The environment *)

Live == pc \notin {"done", "crashed"}

\* The user types a line of n characters, newline included.
TypeLine(n) ==
    /\ Live
    /\ ~eof
    /\ stdin + n <= MaxInput
    /\ stdin' = stdin + n
    /\ UNCHANGED <<platform, argc, addr, wval, pc, number, region, cell, denied,
                   eof, console, exit, steps, badDeref, progWrites, extLog>>

\* Standard input is closed.
CloseStdin ==
    /\ Live
    /\ ~eof
    /\ eof' = TRUE
    /\ UNCHANGED <<platform, argc, addr, wval, pc, number, region, cell, denied,
                   stdin, console, exit, steps, badDeref, progWrites, extLog>>

\* Another tool overwrites the cell while the program sits at a pause
\* ("Press ENTER to update value").
ExternalWrite(w) ==
    /\ pc \in {"pause1", "pause2"}
    /\ Mapped(number)
    /\ Len(extLog) < MaxExtWrites
    /\ cell' = w
    /\ extLog' = Append(extLog, <<pc, w>>)
    /\ UNCHANGED <<platform, argc, addr, wval, pc, number, region, denied,
                   stdin, eof, console, exit, steps, badDeref, progWrites>>

----------------------------------------------------------------------------
(* Specifications *)

Program ==
    \/ Allocate
    \/ Write
    \/ Print1
    \/ Prompt1
    \/ CinGet1
    \/ Print2
    \/ Prompt2
    \/ CinGet2
    \/ Return

Supply == (\E n \in 1 .. MaxLine : TypeLine(n)) \/ CloseStdin

Next ==
    \/ Program
    \/ Supply
    \/ \E w \in Values : ExternalWrite(w)

Spec == Init /\ [][Next]_vars

SpecAny == InitAny /\ [][Next]_vars

\* main runs whenever it can, and every pause is sent its input.
LiveSpec == Init /\ [][Next]_vars /\ WF_vars(Program) /\ WF_vars(Supply)

----------------------------------------------------------------------------
(* Observations used by the properties *)

\* The OS granted the request and allocate_mem has returned.
AllocOK == pc # "alloc" /\ ~denied

\* The OS refused the request and allocate_mem has returned.
AllocFailed == pc # "alloc" /\ denied

IsCellLine(e) == "val" \in DOMAIN e

\* The "<pointer> - <value>" lines printed so far.
Prints == SelectSeq(console, IsCellLine)

AtPause1(e) == e[1] = "pause1"

\* The external edits made during the first pause.
ExtAt1 == SelectSeq(extLog, AtPause1)

ErrorReported == \E i \in 1 .. Len(console) : console[i] = [text |-> "AllocationFailed"]

FullRun == <<"allocate", "write", "print", "pause", "print", "pause", "exit">>

IsPrefix(s, t) == Len(s) <= Len(t) /\ \A i \in 1 .. Len(s) : s[i] = t[i]

\* The value of the platform's own failure result.
Sentinel == IF platform = "win32" THEN NULL ELSE MAP_FAILED

----------------------------------------------------------------------------
(* Properties *)

\* C1: after a refused allocation main never reads or writes through the
\* returned pointer: no state holds an access made after the refusal.
C1_NoUseAfterFailure == AllocFailed => badDeref = 0

\* C2: for every request A and value V, once allocate_mem<uint64_t>(A) has
\* succeeded with handle H, storing V through H and reading H straight after
\* gives V.
C2_RoundTrip ==
    AllocOK =>
        /\ pc = "print1" => (CanRead(number) /\ cell = wval)
        /\ Len(Prints) >= 1 => (Prints[1].val = wval /\ Prints[1].ptr = number)

C2_Witness ==
    /\ AllocOK
    /\ Len(Prints) >= 1
    /\ addr # MainAddr
    /\ wval # InitialValue
    /\ wval # 0

\* C3 as stated: on both builds a refused request returns a null handle, so a
\* null check on allocate_mem's result detects the failure.
C3_NullOnBoth == pc # "alloc" => (denied <=> number = NULL)

\* C3 amended: a refused request returns the platform's own failure result,
\* null from VirtualAlloc and MAP_FAILED (all ones, not null) from mmap;
\* comparing with that result detects the failure, a null check only on the
\* VirtualAlloc build.
C3_PlatformSentinel ==
    pc # "alloc" =>
        /\ denied <=> number = Sentinel
        /\ platform = "posix" => number # NULL

C3_Witness ==
    /\ platform = "posix"
    /\ AllocFailed
    /\ number = MAP_FAILED

\* C4: the run that requests 0x00007FF49E872000 and stores 42 prints 42 before
\* the first pause; with no external edit during the pause it prints 42 again
\* after it; both lines show the same handle.
C4_EndToEnd ==
    AllocOK =>
        /\ addr = <<0, 32756, 40583, 8192>>
        /\ Len(Prints) >= 1 => Prints[1].val = 42
        /\ Len(Prints) = 2 =>
              /\ Prints[2].ptr = Prints[1].ptr
              /\ ExtAt1 = <<>> => Prints[2].val = 42

C4_Witness ==
    /\ AllocOK
    /\ Len(Prints) = 2
    /\ ExtAt1 = <<>>
    /\ pc = "done"

\* C5: after a refused allocation the program reports the error and ends
\* cleanly with a non-zero status; it prints no value and reaches no pause.
C5_FailsCleanly ==
    AllocFailed =>
        /\ Prints = <<>>
        /\ pc \notin {"print1", "prompt1", "pause1", "print2", "prompt2", "pause2"}
        /\ pc \in {"done", "crashed"} =>
              (ErrorReported /\ exit.kind = "exit" /\ exit.code # 0)

\* C6: from the successful return on, the handle is the start of a mapping
\* of at least sizeof(T) bytes that may be read and written; its address is
\* the platform's choice.
C6_HandleValid ==
    AllocOK =>
        /\ region # NoRegion
        /\ number = region.base
        /\ region.size >= SizeofT
        /\ {PROT_READ, PROT_WRITE} \subseteq region.prot
        /\ number \notin {NULL, MAP_FAILED}

\* A successful return whose address differs from the requested one.
C6_Witness ==
    /\ AllocOK
    /\ number # addr
    /\ addr # NULL
    /\ pc = "done"

\* C8: main stores into the cell once, before the first print, and loads it
\* again after the first pause: the second line shows the last value an
\* external edit left there during that pause, and differs from the first
\* line only if there was such an edit.
C8_ExternalEditSeen ==
    AllocOK =>
        /\ progWrites <= 1
        /\ pc # "write" => progWrites = 1
        /\ Len(Prints) = 2 =>
              /\ ExtAt1 # <<>> => Prints[2].val = ExtAt1[Len(ExtAt1)][2]
              /\ ExtAt1 = <<>> => Prints[2].val = Prints[1].val

C8_Witness ==
    /\ AllocOK
    /\ Len(Prints) = 2
    /\ ExtAt1 # <<>>
    /\ Prints[2].val # Prints[1].val

\* C9: after a successful allocation main runs allocate, write, print, pause,
\* print, pause, exit in that order, waits only at the two pauses, and, every
\* pause being sent its input, ends with exit code 0 whatever argc is.
C9_OrderAndExit ==
    /\ [](AllocOK =>
            /\ IsPrefix(steps, FullRun)
            /\ (Live /\ pc \notin {"pause1", "pause2"}) => ENABLED Program
            /\ pc = "done" => (steps = FullRun /\ exit = Exited(0)))
    /\ (AllocOK ~> (pc = "done" /\ exit = Exited(0)))

C9_Witness ==
    /\ AllocOK
    /\ pc = "done"
    /\ steps = FullRun
    /\ argc > 1

\* C10: no step releases, unmaps or re-protects the mapping: once made it
\* stays as it is, and the handle with it, up to the exit, the second read
\* included.
C10_NeverReleased ==
    /\ [][region # NoRegion => (region' = region /\ number' = number)]_vars
    /\ [](AllocOK /\ pc \in {"print2", "done"} => (CanRead(number) /\ CanWrite(number)))

C10_Witness ==
    /\ AllocOK
    /\ pc = "done"
    /\ Mapped(number)
    /\ Len(extLog) > 0

====
